---- MODULE Spec2Model ----
(***************************************************************************)
(* Model of the Ralph-Lite orchestrator (src/src/core/ralph_lite.py), its  *)
(* budget guardian (src/src/utils/token_tracker.py) and the Telegram       *)
(* request/reply bridge (src/src/utils/telegram.py).                       *)
(*                                                                         *)
(* Money is counted in cents.  Free text (answers, feedback, plan body) is *)
(* abstracted to the parts the control flow reads.                         *)
(***************************************************************************)
EXTENDS Integers, Sequences, FiniteSets, TLC

(***************************************************************************)
(* Bounds of the model.                                                    *)
(***************************************************************************)
\* max_iterations passed to the constructor by the caller of the build.
MaxIterations == 3
\* Number of run()/resume() invocations explored on one build.
MaxCalls == 2
\* Inbound updates the channel receives, request_user_input calls, and polls
\* that fit into one wait before its deadline.
MaxUpdates == 3
MaxRequests == 2
MaxPolls == 2
\* log_cost calls, clock ticks and calendar dates explored on the cost ledger.
MaxLogs == 3
MaxTicks == 1
MaxDates == 2
\* Changes of letter case made to one text.
MaxRecase == 2
\* Iteration outcomes in a BuildState that is serialized.
MaxOutcomes == 2

(***************************************************************************)
(* Program constants.                                                      *)
(***************************************************************************)
InterviewEstimate == 10
InterviewCost == 5
PlanEstimate == 30
PlanCost == 30
ScaffoldEstimate == 10
ScaffoldCost == 10
IterEstimate == 50
NumQuestions == 5
NumTasks == 7
DefaultMaxIterations == 10
MaxRevisions == 3

\* Values of max_daily_cost the configuration file may carry (default 500).
DailyLimits == {10, 55, 65, 130, 500}
\* Costs an iteration outcome may report; one builder reports the same cost
\* for each iteration it builds.
IterCosts == {50, 75}
\* Numeric ROLLBACK parameters the human may type.
Digits == <<"0", "1", "2">>

ProjectName == "my-project"

Phases == {"IDLE", "INTERVIEW", "PLANNING", "BUILD", "DONE", "PAUSED", "FAILED"}

VARIABLES
    state,           \* BuildState held by the orchestrator object
    state_file,      \* BUILD_STATE.json: << >> when absent, else <<snapshot>>
    daily_limit,     \* TokenGuardian.daily_limit
    ledger,          \* TokenGuardian.daily_costs["history"], in insertion order
    max_iterations,  \* RalphLiteOrchestrator.max_iterations
    mode,            \* "none", "run" or "resume": the entry point executing
    pc,              \* position of the executing call
    exc,             \* exception in flight when pc = "exc"
    q_idx,           \* interview loop: index of the next question (1-based)
    attempt,         \* planning loop: value of `attempt` (0-based)
    plan,            \* plan rendered by the planner in this call
    iter_cost,       \* cost the IterationBuilder of this call reports per iteration
    loop_i,          \* build loop: value of `i`
    last_cmd,        \* build loop: `parsed` of the last checkpoint
    completed,       \* value returned by _run_build_phase ("none" before)
    result,          \* what the last call returned or raised
    sent,            \* messages the executing call handed to the bridge, by kind
    timed_out,       \* which reply wait of this call ended in TimeoutError
    approval,        \* action parsed from the last plan decision of this call
    calls            \* number of run()/resume() invocations so far

VARIABLES
    inbox,           \* the channel's updates; update_id is the position (1-based)
    confirmed,       \* highest update_id the channel has dropped as confirmed
    last_update_id,  \* telegram._last_update_id
    baseline,        \* request_user_input: baseline_update_id
    bpc,             \* position of the executing request_user_input call
    reply,           \* update whose text the last call returned (0: none)
    polls,           \* polls made by the executing call (0 when none executes)
    prompt_mark,     \* number of updates that existed when the prompt went out
    requests,        \* number of request_user_input calls so far
    consumed,        \* the updates returned as replies so far
    send_attempts,   \* failed attempts of the sendMessage request in progress
    poll_failures,   \* polls of the executing call that failed in a row
    slept            \* seconds of the call's last sleep before a new attempt

\* The cost ledger shared by every TokenGuardian of the machine.
VARIABLES
    wall_date,       \* the calendar date, date.today()
    now,             \* the clock reading within the date, datetime.now()
    costs_file,      \* token_costs.json
    guardians,       \* the TokenGuardian objects: today, daily_costs
    recorded,        \* the log_cost calls made so far: how many, by whom, what
    checked          \* the last check_budget call and what it returned

\* The build directories of the project, one per date in the directory name.
VARIABLES
    dir_date,        \* date in the name of the directory of self.state_file
    build_dir,       \* date in the name of orchestrator.build_dir
    shelved          \* BUILD_STATE.json of the directories of the other dates

\* A text on its way through parse_command.
VARIABLES
    response,        \* the text handed to parse_command
    original,        \* the text as first typed, before any change of case
    recased,         \* number of characters whose case was changed
    parse_result     \* what parse_command returned for response

\* A BuildState on its way through to_dict and from_dict.
VARIABLES
    given,           \* the BuildState object handed to to_dict
    restored         \* what from_dict made of the dictionary

avars == <<response, original, recased, parse_result, given, restored>>

gvars == <<wall_date, now, costs_file, guardians, recorded, checked>>

fvars == <<dir_date, build_dir, shelved>>

bvars == <<inbox, confirmed, last_update_id, baseline, bpc, reply, polls,
           prompt_mark, requests, consumed, send_attempts,
           poll_failures, slept>>

ovars == <<state, state_file, daily_limit, ledger, max_iterations, mode, pc,
           exc, q_idx, attempt, plan, iter_cost, loop_i, last_cmd, completed,
           result, sent, timed_out, approval, calls>>

(***************************************************************************)
(* BudgetGuardian (token_tracker.py).                                      *)
(***************************************************************************)
RECURSIVE SumCosts(_)
SumCosts(h) == IF h = << >> THEN 0 ELSE h[1].cost + SumCosts(Tail(h))

get_daily_spend == SumCosts(ledger)

check_budget_inclusive(estimated_cost) ==
    (get_daily_spend + estimated_cost) <= daily_limit

check_budget(estimated_cost) ==
    (get_daily_spend + estimated_cost) < daily_limit

log_cost(operation, cost) ==
    Append(ledger, [operation |-> operation, cost |-> cost])

(***************************************************************************)
(* parse_command and the prompt wrappers (telegram.py).  A reply is the    *)
(* text  kw  |  kw ": " arg  |  kw " " arg  with kw already lower-cased by *)
(* the reader of this model; sep tells which of the three shapes it has.   *)
(***************************************************************************)
IsDigit(s) == \E n \in 1..Len(Digits) : Digits[n] = s
IntOf(s) == (CHOOSE n \in 1..Len(Digits) : Digits[n] = s) - 1

Raw(kw, sep, arg) == [kw |-> kw, sep |-> sep, arg |-> arg]

\* raw.strip(): "kw " is the bare keyword.
Bare(raw) == raw.sep = "none" \/ (raw.sep = "space" /\ raw.arg = "")

Cmd(action, parameter) == [action |-> action, parameter |-> parameter]

parse_command(raw) ==
    IF Bare(raw) /\ raw.kw \in {"continue", "cont", "c", "yes", "y", "go", "proceed"}
        THEN Cmd("CONTINUE", "")
    ELSE IF Bare(raw) /\ raw.kw \in {"stop", "halt", "cancel", "abort", "end", "quit"}
        THEN Cmd("STOP", "")
    ELSE IF Bare(raw) /\ raw.kw \in {"approve", "approved", "ok", "good", "accept"}
        THEN Cmd("APPROVE", "")
    ELSE IF Bare(raw) /\ raw.kw \in {"reject", "rejected", "no", "n", "bad", "decline"}
        THEN Cmd("REJECT", "")
    ELSE IF raw.kw = "fix" /\ ~Bare(raw)
        THEN Cmd("FIX", raw.arg)
    ELSE IF raw.kw = "rollback"
        THEN Cmd("ROLLBACK", IF ~Bare(raw) /\ IsDigit(raw.arg) THEN raw.arg ELSE "")
    ELSE IF raw.kw = "revise" /\ ~Bare(raw)
        THEN Cmd("REVISE", raw.arg)
    ELSE Cmd("UNKNOWN", "")

\* The text an action name makes when it is handed back as a command string.
ActionText(action) ==
    CASE action = "CONTINUE" -> Raw("continue", "none", "")
      [] action = "STOP"     -> Raw("stop", "none", "")
      [] action = "APPROVE"  -> Raw("approve", "none", "")
      [] action = "REJECT"   -> Raw("reject", "none", "")
      [] action = "FIX"      -> Raw("fix", "none", "")
      [] action = "ROLLBACK" -> Raw("rollback", "none", "")
      [] action = "REVISE"   -> Raw("revise", "none", "")
      [] OTHER               -> Raw("unknown", "none", "")

\* send_iteration_result: the command string it returns for a reply.
send_iteration_result(raw) ==
    LET parsed == parse_command(raw) IN
    IF parsed.action = "FIX" /\ parsed.parameter # ""
        THEN Raw("fix", "colon", parsed.parameter)
    ELSE IF parsed.action = "ROLLBACK" /\ parsed.parameter # ""
        THEN Raw("rollback", "colon", parsed.parameter)
    ELSE ActionText(parsed.action)

\* send_plan_for_approval: the command string it returns for a reply.
send_plan_for_approval(raw) ==
    LET parsed == parse_command(raw) IN
    IF parsed.action = "REVISE" /\ parsed.parameter # ""
        THEN Raw("revise", "colon", parsed.parameter)
    ELSE ActionText(parsed.action)

\* Replies the human may give at a plan approval and at a checkpoint.
ApprovalReplies ==
    { Raw("approve", "none", ""), Raw("reject", "none", ""),
      Raw("revise", "colon", "more tests"), Raw("hello", "none", "") }

CheckpointReplies ==
    { Raw("continue", "none", ""), Raw("stop", "none", ""),
      Raw("fix", "colon", "missing tests"), Raw("rollback", "none", ""),
      Raw("hello", "none", "") }
    \cup { Raw("rollback", "space", Digits[n]) : n \in 1..Len(Digits) }

(***************************************************************************)
(* parse_command on text (telegram.py, lines 155-213): a string is the     *)
(* sequence of its characters.                                             *)
(***************************************************************************)
Lowers == <<"a", "b", "c", "d", "e", "f", "g", "h", "i", "j", "k", "l", "m", "n", "o", "p", "q", "r", "s", "t", "u", "v", "w", "x", "y", "z">>
Uppers == <<"A", "B", "C", "D", "E", "F", "G", "H", "I", "J", "K", "L", "M", "N", "O", "P", "Q", "R", "S", "T", "U", "V", "W", "X", "Y", "Z">>
DigitChars == {"0", "1", "2", "3", "4", "5", "6", "7", "8", "9"}

\* str.lower() without the case mapping.
lower_char_identity(ch) == ch

\* str.lower() on one character.
lower_char(ch) ==
    IF \E n \in 1..Len(Uppers) : Uppers[n] = ch
    THEN Lowers[CHOOSE n \in 1..Len(Uppers) : Uppers[n] = ch]
    ELSE ch

lower(s) == [n \in 1..Len(s) |-> lower_char(s[n])]

\* The other case of a letter; any other character as it is.
swapcase_char(ch) ==
    IF \E n \in 1..Len(Lowers) : Lowers[n] = ch
    THEN Uppers[CHOOSE n \in 1..Len(Lowers) : Lowers[n] = ch]
    ELSE IF \E n \in 1..Len(Uppers) : Uppers[n] = ch
    THEN Lowers[CHOOSE n \in 1..Len(Uppers) : Uppers[n] = ch]
    ELSE ch

RECURSIVE lstrip(_)
lstrip(s) == IF s # << >> /\ Head(s) = " " THEN lstrip(Tail(s)) ELSE s

RECURSIVE rstrip(_)
rstrip(s) ==
    IF s # << >> /\ s[Len(s)] = " " THEN rstrip(SubSeq(s, 1, Len(s) - 1)) ELSE s

\* str.strip()
strip(s) == rstrip(lstrip(s))

\* str.startswith(prefix)
startswith(s, prefix) ==
    Len(s) >= Len(prefix) /\ SubSeq(s, 1, Len(prefix)) = prefix

\* s[n:]
slice_from(s, n) == IF n >= Len(s) THEN << >> ELSE SubSeq(s, n + 1, Len(s))

\* The first whitespace-separated part of s and what follows it.
RECURSIVE first_part(_)
first_part(s) ==
    IF s = << >> \/ Head(s) = " " THEN << >> ELSE <<Head(s)>> \o first_part(Tail(s))

\* str.split(): the parts between runs of blanks.
RECURSIVE split(_)
split(s) ==
    LET t == lstrip(s) IN
    IF t = << >> THEN << >>
    ELSE <<first_part(t)>> \o split(slice_from(t, Len(first_part(t))))

\* str.isdigit()
isdigit(s) == s # << >> /\ \A n \in 1..Len(s) : s[n] \in DigitChars

\* Lines 199-205: the first part after the keyword that is a number.
RECURSIVE first_number(_)
first_number(parts) ==
    IF parts = << >> THEN << >>
    ELSE IF isdigit(Head(parts)) THEN Head(parts)
    ELSE first_number(Tail(parts))

ContinueWords ==
    { <<"c", "o", "n", "t", "i", "n", "u", "e">>,
      <<"c", "o", "n", "t">>,
      <<"c">>,
      <<"y", "e", "s">>,
      <<"y">>,
      <<"g", "o">>,
      <<"p", "r", "o", "c", "e", "e", "d">> }
StopWords ==
    { <<"s", "t", "o", "p">>,
      <<"h", "a", "l", "t">>,
      <<"c", "a", "n", "c", "e", "l">>,
      <<"a", "b", "o", "r", "t">>,
      <<"e", "n", "d">>,
      <<"q", "u", "i", "t">> }
ApproveWords ==
    { <<"a", "p", "p", "r", "o", "v", "e">>,
      <<"a", "p", "p", "r", "o", "v", "e", "d">>,
      <<"o", "k">>,
      <<"g", "o", "o", "d">>,
      <<"a", "c", "c", "e", "p", "t">> }
RejectWords ==
    { <<"r", "e", "j", "e", "c", "t">>,
      <<"r", "e", "j", "e", "c", "t", "e", "d">>,
      <<"n", "o">>,
      <<"n">>,
      <<"b", "a", "d">>,
      <<"d", "e", "c", "l", "i", "n", "e">> }

TextCmd(action, parameter, raw) ==
    [action |-> action, parameter |-> parameter, raw |-> raw]

\* parse_command(response), lines 155-213.
parse_text(text) ==
    IF text = << >> THEN TextCmd("UNKNOWN", << >>, << >>)
    ELSE LET raw == strip(text)
             low == lower(raw)
         IN IF low \in ContinueWords THEN TextCmd("CONTINUE", << >>, raw)
            ELSE IF low \in StopWords THEN TextCmd("STOP", << >>, raw)
            ELSE IF low \in ApproveWords THEN TextCmd("APPROVE", << >>, raw)
            ELSE IF low \in RejectWords THEN TextCmd("REJECT", << >>, raw)
            ELSE IF startswith(low, <<"f", "i", "x", ":">>) \/ startswith(low, <<"f", "i", "x", " ">>)
                THEN TextCmd("FIX", strip(slice_from(raw, 4)), raw)
            ELSE IF startswith(low, <<"r", "o", "l", "l", "b", "a", "c", "k">>)
                THEN TextCmd("ROLLBACK", first_number(Tail(split(low))), raw)
            ELSE IF startswith(low, <<"r", "e", "v", "i", "s", "e", ":">>) \/ startswith(low, <<"r", "e", "v", "i", "s", "e", " ">>)
                THEN TextCmd("REVISE", strip(slice_from(raw, 7)), raw)
            ELSE TextCmd("UNKNOWN", << >>, raw)

NoParse == TextCmd("NONE", << >>, << >>)

\* No text is being parsed.
NoText ==
    /\ response = << >>
    /\ original = << >>
    /\ recased = 0
    /\ parse_result = NoParse
    /\ given = << >>
    /\ restored = << >>

\* Texts the human may type, in lower case.
Texts ==
    { <<>>,
      <<" ">>,
      <<"o", "k">>,
      <<"a", "p", "p", "r", "o", "v", "e">>,
      <<" ", "o", "k", " ">>,
      <<"y">>,
      <<"g", "o">>,
      <<"s", "t", "o", "p">>,
      <<"q", "u", "i", "t">>,
      <<"n", "o">>,
      <<"d", "e", "c", "l", "i", "n", "e">>,
      <<"f", "i", "x", ":", " ", "m", "i", "s", "s", "i", "n", "g", " ", "t", "e", "s", "t", "s">>,
      <<"f", "i", "x">>,
      <<"f", "i", "x", " ", "i", "t">>,
      <<"f", "i", "x", "e", "d">>,
      <<"r", "o", "l", "l", "b", "a", "c", "k", " ", "2">>,
      <<"r", "o", "l", "l", "b", "a", "c", "k">>,
      <<"r", "o", "l", "l", "b", "a", "c", "k", " ", "t", "o", " ", "2">>,
      <<"r", "o", "l", "l", "b", "a", "c", "k", "2">>,
      <<"r", "e", "v", "i", "s", "e", ":", " ", "x">>,
      <<"r", "e", "v", "i", "s", "e">>,
      <<"h", "e", "l", "l", "o">>,
      <<"o", "k", "a", "y">> }

\* The case of one letter of the text is changed.
Recase ==
    /\ recased < MaxRecase
    /\ \E n \in 1..Len(response) :
          /\ swapcase_char(response[n]) # response[n]
          /\ response' = [response EXCEPT ![n] = swapcase_char(@)]
    /\ recased' = recased + 1
    /\ parse_result' = NoParse
    /\ UNCHANGED <<original, given, restored>>

\* parse_command(response) is called.
ParseText ==
    /\ parse_result = NoParse
    /\ parse_result' = parse_text(response)
    /\ UNCHANGED <<response, original, recased, given, restored>>

(***************************************************************************)
(* BuildState and its snapshot (ralph_lite.py).                            *)
(***************************************************************************)
NewState ==
    [ phase |-> "IDLE", project_name |-> ProjectName, qa_pairs |-> << >>,
      approved_plan |-> << >>, plan_revisions |-> 0, current_iteration |-> 0,
      iterations |-> << >>, last_iteration_path |-> << >>, total_cost |-> 0,
      paused_at |-> FALSE, pause_reason |-> "None" ]

to_dict(s) ==
    [ phase |-> s.phase, project_name |-> s.project_name, qa_pairs |-> s.qa_pairs,
      approved_plan |-> s.approved_plan, plan_revisions |-> s.plan_revisions,
      current_iteration |-> s.current_iteration, iterations |-> s.iterations,
      last_iteration_path |-> s.last_iteration_path, total_cost |-> s.total_cost,
      paused_at |-> s.paused_at, pause_reason |-> s.pause_reason ]

from_dict(d) ==
    [ phase |-> d.phase, project_name |-> d.project_name, qa_pairs |-> d.qa_pairs,
      approved_plan |-> d.approved_plan, plan_revisions |-> d.plan_revisions,
      current_iteration |-> d.current_iteration, iterations |-> d.iterations,
      last_iteration_path |-> d.last_iteration_path, total_cost |-> d.total_cost,
      paused_at |-> d.paused_at, pause_reason |-> d.pause_reason ]

\* _save_state: the file content after persisting s.
save_state(s) == << to_dict(s) >>

\* _pause_build: the state it leaves (it also saves and sends one alert).
pause_build(s, reason) ==
    [s EXCEPT !.phase = "PAUSED", !.paused_at = TRUE, !.pause_reason = reason]

NoResult ==
    [kind |-> "none", success |-> FALSE, reason |-> "", error |-> "", phase |-> "",
     keys |-> {}]
NoCmd == Cmd("NONE", "")

Bump(kind) == [sent EXCEPT ![kind] = @ + 1]

\* Number of iterations the build loop ranges over: len(iterations[:max_iterations]).
LoopLen == IF max_iterations < NumTasks THEN max_iterations ELSE NumTasks

(***************************************************************************)
(* The three stateless generators.                                         *)
(***************************************************************************)
\* PlanGenerator.create_plan: the template's title line carries the name.
create_plan(project_name) == << "# Implementation Plan: ", project_name >>

\* IterationBuilder.create_scaffold / build_iteration: the outcome records.
IterationResult(num, cost) ==
    [iteration_num |-> num, cost |-> cost, path |-> <<"iteration", num>>]

create_scaffold == IterationResult(0, ScaffoldCost)

build_iteration(num, cost) == IterationResult(num, cost)

(***************************************************************************)
(* BuildState with every field, and its dictionary (ralph_lite.py, lines   *)
(* 42-154).  A phase is the enum member's value in the object and its name *)
(* in the dictionary; a datetime is a record in the object and its         *)
(* ISO-8601 text in the dictionary; an Optional is << >> or <<value>>.     *)
(***************************************************************************)
\* BuildPhase, lines 42-50: the names in the order of their auto() values.
BuildPhaseNames == <<"IDLE", "INTERVIEW", "PLANNING", "BUILD", "DONE", "PAUSED", "FAILED">>

\* phase.name
phase_name(member) == BuildPhaseNames[member]

\* BuildPhase[name]
phase_member(name) == CHOOSE v \in 1..Len(BuildPhaseNames) : BuildPhaseNames[v] = name

\* datetime.isoformat() cut to the second.
isoformat_seconds(dt) == <<dt.day, "T", dt.second>>

\* datetime.isoformat(): the fraction is written only when it is not zero.
isoformat(dt) ==
    IF dt.microsecond = 0 THEN <<dt.day, "T", dt.second>>
    ELSE <<dt.day, "T", dt.second, ".", dt.microsecond>>

\* datetime.fromisoformat()
fromisoformat(text) ==
    [day |-> text[1], second |-> text[3],
     microsecond |-> IF Len(text) = 5 THEN text[5] ELSE 0]

\* _iteration_to_dict, lines 100-112.
iteration_to_dict(r) ==
    [success |-> r.success, iteration_num |-> r.iteration_num,
     files_created |-> r.files_created, files_modified |-> r.files_modified,
     tests_passed |-> r.tests_passed, cost |-> r.cost, path |-> r.path,
     summary |-> r.summary]

\* Lines 127-137: IterationResult(**fields).
iteration_from_dict(d) ==
    [type |-> "IterationResult", success |-> d.success,
     iteration_num |-> d.iteration_num, files_created |-> d.files_created,
     files_modified |-> d.files_modified, tests_passed |-> d.tests_passed,
     cost |-> d.cost, path |-> d.path, summary |-> d.summary]

\* BuildState.to_dict, lines 81-98.
BuildState_to_dict(s) ==
    [phase |-> phase_name(s.phase),
     project_name |-> s.project_name,
     source_idea |-> s.source_idea,
     started_at |-> isoformat(s.started_at),
     updated_at |-> isoformat(s.updated_at),
     qa_pairs |-> s.qa_pairs,
     approved_plan |-> s.approved_plan,
     plan_revisions |-> s.plan_revisions,
     current_iteration |-> s.current_iteration,
     iterations |-> [n \in 1..Len(s.iterations) |-> iteration_to_dict(s.iterations[n])],
     last_iteration_path |-> s.last_iteration_path,
     total_cost |-> s.total_cost,
     paused_at |-> IF s.paused_at # << >> THEN <<isoformat(s.paused_at[1])>> ELSE << >>,
     pause_reason |-> s.pause_reason]

\* BuildState.from_dict, lines 115-154.
BuildState_from_dict(d) ==
    [phase |-> phase_member(d.phase),
     project_name |-> d.project_name,
     source_idea |-> d.source_idea,
     started_at |-> fromisoformat(d.started_at),
     updated_at |-> fromisoformat(d.updated_at),
     qa_pairs |-> d.qa_pairs,
     approved_plan |-> d.approved_plan,
     plan_revisions |-> d.plan_revisions,
     current_iteration |-> d.current_iteration,
     iterations |-> [n \in 1..Len(d.iterations) |-> iteration_from_dict(d.iterations[n])],
     last_iteration_path |-> d.last_iteration_path,
     total_cost |-> d.total_cost,
     paused_at |-> IF d.paused_at # << >> THEN <<fromisoformat(d.paused_at[1])>> ELSE << >>,
     pause_reason |-> d.pause_reason]

\* Moments a timestamp may hold: day, second of the day, microsecond.
Datetimes ==
    { [day |-> 1, second |-> 0, microsecond |-> 0],
      [day |-> 1, second |-> 59, microsecond |-> 250000],
      [day |-> 2, second |-> 7, microsecond |-> 1] }

\* Outcomes an iteration may record.
Outcomes ==
    { [type |-> "IterationResult", success |-> ok, iteration_num |-> num,
       files_created |-> <<"main.py">>, files_modified |-> << >>,
       tests_passed |-> ok, cost |-> 50, path |-> <<"iteration", num>>,
       summary |-> "built"] : ok \in BOOLEAN, num \in {0, 1} }

RECURSIVE SeqsUpTo(_, _)
SeqsUpTo(S, n) ==
    IF n = 0 THEN { << >> }
    ELSE SeqsUpTo(S, n - 1)
            \cup { Append(q, x) : q \in { p \in SeqsUpTo(S, n - 1) : Len(p) = n - 1 }, x \in S }

\* The BuildState objects the round trip is applied to.
BuildStates ==
    [phase : 1..Len(BuildPhaseNames),
     project_name : {ProjectName},
     source_idea : {"an idea"},
     started_at : { dt \in Datetimes : dt.day = 1 },
     updated_at : Datetimes,
     qa_pairs : { << >>, <<[question |-> "Q?", answer |-> "A"]>> },
     approved_plan : { << >>, create_plan(ProjectName) },
     plan_revisions : {0, 2},
     current_iteration : {0, 1},
     iterations : SeqsUpTo(Outcomes, MaxOutcomes),
     last_iteration_path : { << >> },
     total_cost : {0, 250},
     paused_at : { << >> } \cup { <<dt>> : dt \in { x \in Datetimes : x.day = 2 } },
     pause_reason : {"None", "Budget limit"}]

\* to_dict and from_dict are applied to the object, as the test does.
RoundTrip ==
    /\ given # << >>
    /\ restored = << >>
    /\ restored' = << BuildState_from_dict(BuildState_to_dict(given[1])) >>
    /\ UNCHANGED <<response, original, recased, parse_result, given>>

(***************************************************************************)
(* Initial state: a freshly constructed orchestrator for a new build, no   *)
(* snapshot on disk, an empty ledger for the day.                          *)
(***************************************************************************)
\* Prompts, alerts and the completion notice are counted; the informational
\* send_message calls ("Starting build", "Revising plan", "Applying fix",
\* "Rolled back", "Resuming build") leave no trace in the program's state.
NoSent == [k \in {"question", "approval", "checkpoint", "alert", "complete"} |-> 0]

OrchInit ==
    /\ state = NewState
    /\ state_file = << >>
    /\ daily_limit \in DailyLimits
    /\ ledger = << >>
    /\ max_iterations = MaxIterations
    /\ mode = "none"
    /\ pc = "idle"
    /\ exc = "none"
    /\ q_idx = 0
    /\ attempt = 0
    /\ plan = << >>
    /\ iter_cost = 0
    /\ loop_i = 0
    /\ last_cmd = NoCmd
    /\ completed = "none"
    /\ result = NoResult
    /\ sent = NoSent
    /\ timed_out = "none"
    /\ approval = "NONE"
    /\ calls = 0
    /\ dir_date = 1
    /\ build_dir = 1
    /\ shelved = [d \in 1..MaxDates |-> << >>]

CanStart == pc \in {"idle", "returned", "raised"} /\ calls < MaxCalls

\* The locals of a call that starts.
FreshCall ==
    /\ exc' = "none"
    /\ attempt' = 0
    /\ plan' = << >>
    /\ loop_i' = 0
    /\ last_cmd' = NoCmd
    /\ completed' = "none"
    /\ timed_out' = "none"
    /\ approval' = "NONE"
    /\ calls' = calls + 1

\* _run_interview_phase, lines 349-357: up to the question loop.
StartInterview(s, snt) ==
    /\ state' = [s EXCEPT !.phase = "INTERVIEW"]
    /\ state_file' = save_state(state')
    /\ sent' = snt
    /\ q_idx' = 1
    /\ pc' = "interview"

\* _run_planning_phase, lines 389-395: up to the revision loop.
StartPlanning(s) ==
    /\ state' = [s EXCEPT !.phase = "PLANNING"]
    /\ state_file' = save_state(state')
    /\ attempt' = 0
    /\ pc' = "planning"

\* _run_build_phase, lines 442-461: up to the scaffold.
StartBuild(s) ==
    /\ state' = [s EXCEPT !.phase = "BUILD"]
    /\ state_file' = save_state(state')
    /\ iter_cost' \in IterCosts
    /\ pc' = "build_scaffold"

\* _check_budget failing: _pause_build, then the caller raises BudgetExceeded.
BudgetFail ==
    /\ state' = pause_build(state, "Budget limit reached")
    /\ state_file' = save_state(state')
    /\ sent' = Bump("alert")
    /\ pc' = "exc"
    /\ exc' = "BudgetExceeded"

(***************************************************************************)
(* run()                                                                   *)
(***************************************************************************)
Run ==
    /\ CanStart
    /\ FreshCall
    /\ mode' = "run"
    /\ result' = NoResult
    /\ StartInterview(state, NoSent)
    /\ UNCHANGED <<iter_cost, daily_limit, ledger, max_iterations>>

(***************************************************************************)
(* Phase 1: interview.                                                     *)
(***************************************************************************)
InterviewBudgetFail ==
    /\ pc = "interview"
    /\ q_idx <= NumQuestions
    /\ ~check_budget(InterviewEstimate)
    /\ BudgetFail
    /\ UNCHANGED <<iter_cost, daily_limit, ledger, max_iterations, mode, q_idx, attempt, plan,
                   loop_i, last_cmd, completed, result, timed_out, approval, calls>>

InterviewAsk ==
    /\ pc = "interview"
    /\ q_idx <= NumQuestions
    /\ check_budget(InterviewEstimate)
    /\ sent' = Bump("question")
    /\ pc' = "wait_answer"
    /\ UNCHANGED <<iter_cost, state, state_file, daily_limit, ledger, max_iterations, mode, exc,
                   q_idx, attempt, plan, loop_i, last_cmd, completed, result,
                   timed_out, approval, calls>>

\* _ask_question with an answer, then lines 366-373.
InterviewAnswer ==
    /\ pc = "wait_answer"
    /\ ledger' = log_cost("interview_question", InterviewCost)
    /\ state' = [state EXCEPT !.qa_pairs = Append(@, q_idx),
                              !.total_cost = @ + InterviewCost]
    /\ state_file' = save_state(state')
    /\ q_idx' = q_idx + 1
    /\ pc' = "interview"
    /\ UNCHANGED <<iter_cost, daily_limit, max_iterations, mode, exc, attempt, plan, loop_i,
                   last_cmd, completed, result, sent, timed_out, approval, calls>>

\* _ask_question, lines 298-300: request_user_input raised.
InterviewFail ==
    /\ pc = "wait_answer"
    /\ \E e \in {"TimeoutError", "SendError"} :
        /\ exc' = e
        /\ timed_out' = IF e = "TimeoutError" THEN "interview" ELSE timed_out
    /\ state' = pause_build(state, "Interview timeout")
    /\ state_file' = save_state(state')
    /\ sent' = Bump("alert")
    /\ pc' = "exc"
    /\ UNCHANGED <<iter_cost, daily_limit, ledger, max_iterations, mode, q_idx, attempt, plan,
                   loop_i, last_cmd, completed, result, approval, calls>>

\* The question loop is exhausted: requirements are summarised, planning starts.
InterviewDone ==
    /\ pc = "interview"
    /\ q_idx > NumQuestions
    /\ StartPlanning(state)
    /\ UNCHANGED <<iter_cost, daily_limit, ledger, max_iterations, mode, exc, q_idx, plan,
                   loop_i, last_cmd, completed, result, sent, timed_out, approval,
                   calls>>

(***************************************************************************)
(* Phase 2: planning.                                                      *)
(***************************************************************************)
\* _request_approval with the REJECT branch lost: a rejection reads as feedback.
request_approval_no_reject(command) ==
    LET parsed == parse_command(command) IN
    IF parsed.action = "APPROVE" THEN <<TRUE, "">>
    ELSE IF parsed.action = "REVISE" THEN <<FALSE, "feedback">>
    ELSE <<FALSE, "unclear command">>

\* _request_approval, lines 306-316: (approved, feedback) for a command string.
request_approval(command) ==
    LET parsed == parse_command(command) IN
    IF parsed.action = "APPROVE" THEN <<TRUE, "">>
    ELSE IF parsed.action = "REJECT" THEN <<FALSE, "rejected">>
    ELSE IF parsed.action = "REVISE" THEN <<FALSE, "feedback">>
    ELSE <<FALSE, "unclear command">>

\* range(max_revisions) is exhausted: line 433.
PlanningExhausted ==
    /\ pc = "planning"
    /\ attempt >= MaxRevisions
    /\ pc' = "exc"
    /\ exc' = "MaxRevisions"
    /\ UNCHANGED <<iter_cost, state, state_file, daily_limit, ledger, max_iterations, mode,
                   q_idx, attempt, plan, loop_i, last_cmd, completed, result, sent,
                   timed_out, approval, calls>>

PlanningBudgetFail ==
    /\ pc = "planning"
    /\ attempt < MaxRevisions
    /\ ~check_budget(PlanEstimate)
    /\ BudgetFail
    /\ UNCHANGED <<iter_cost, daily_limit, ledger, max_iterations, mode, q_idx, attempt, plan,
                   loop_i, last_cmd, completed, result, timed_out, approval, calls>>

PlanningAsk ==
    /\ pc = "planning"
    /\ attempt < MaxRevisions
    /\ check_budget(PlanEstimate)
    /\ plan' = create_plan(state.project_name)
    /\ sent' = Bump("approval")
    /\ pc' = "wait_approval"
    /\ UNCHANGED <<iter_cost, state, state_file, daily_limit, ledger, max_iterations, mode, exc,
                   q_idx, attempt, loop_i, last_cmd, completed, result, timed_out,
                   approval, calls>>

\* Lines 409-431 for the command string send_plan_for_approval returned.
PlanDecision(command) ==
    LET r == request_approval(command) IN
    /\ approval' = parse_command(command).action
    /\ IF r[1] THEN
          \* approved: plan stored and saved, cost logged, then the build phase starts
          /\ ledger' = log_cost("plan_approved", PlanCost)
          /\ StartBuild([state EXCEPT !.approved_plan = plan,
                                      !.total_cost = @ + PlanCost])
          /\ UNCHANGED <<exc, attempt, sent>>
       ELSE IF r[2] = "rejected" THEN
          /\ state' = [state EXCEPT !.plan_revisions = @ + 1]
          /\ pc' = "exc"
          /\ exc' = "PlanRejected"
          /\ UNCHANGED <<state_file, ledger, attempt, sent, iter_cost>>
       ELSE
          /\ state' = [state EXCEPT !.plan_revisions = @ + 1]
          /\ attempt' = attempt + 1
          /\ pc' = "planning"
          /\ UNCHANGED <<state_file, ledger, exc, sent, iter_cost>>
    /\ UNCHANGED <<daily_limit, max_iterations, mode, q_idx, plan, loop_i, last_cmd,
                   completed, result, calls>>

ApprovalReply ==
    /\ pc = "wait_approval"
    /\ \E raw \in ApprovalReplies : PlanDecision(send_plan_for_approval(raw))
    /\ UNCHANGED timed_out

\* send_plan_for_approval, lines 459-461: TimeoutError becomes "REJECT".
ApprovalTimeout ==
    /\ pc = "wait_approval"
    /\ PlanDecision(ActionText("REJECT"))
    /\ timed_out' = "approval"

\* request_user_input raised RuntimeError: _request_approval, lines 318-320.
ApprovalSendError ==
    /\ pc = "wait_approval"
    /\ state' = pause_build(state, "Approval timeout")
    /\ state_file' = save_state(state')
    /\ sent' = Bump("alert")
    /\ pc' = "exc"
    /\ exc' = "SendError"
    /\ UNCHANGED <<iter_cost, daily_limit, ledger, max_iterations, mode, q_idx, attempt, plan,
                   loop_i, last_cmd, completed, result, timed_out, approval, calls>>

(***************************************************************************)
(* Phase 3: build, and phase 4: done.                                      *)
(***************************************************************************)
\* The keys of the dict a return statement builds.
ReturnKeys(reason) ==
    CASE reason = "budget_exceeded" ->
             {"success", "reason", "project_path", "total_cost"}      \* 604-609
      [] reason = "error" ->
             {"success", "reason", "error", "project_path"}           \* 615-620
      [] reason = "paused" ->
             {"success", "reason", "project_path"}                    \* 678-682
      [] OTHER ->
             {"success", "project_path", "final_path", "total_cost",
              "iterations", "phase"}                                  \* 592-599

\* resume(), lines 684-688.
ResumeKeys == {"success", "project_path", "total_cost"}

Returned(success, reason, error, phase) ==
    [kind |-> "return", success |-> success, reason |-> reason, error |-> error,
     phase |-> phase, keys |-> ReturnKeys(reason)]

\* What resume() returns at its end, the build's phase being ph.
ResumeReturn(ph) == [Returned(ph = "DONE", "", "", ph) EXCEPT !.keys = ResumeKeys]

\* What run() (lines 592-599) or resume() (lines 684-688) returns when the
\* phase methods came back without raising, the build's phase being ph.
NormalReturn(ph) ==
    IF mode = "run" THEN Returned(TRUE, "", "", ph)
    ELSE ResumeReturn(ph)

\* Lines 463-475 with the budget check failing.
ScaffoldBudgetFail ==
    /\ pc = "build_scaffold"
    /\ state.current_iteration = 0
    /\ ~check_budget(ScaffoldEstimate)
    /\ BudgetFail
    /\ UNCHANGED <<iter_cost, daily_limit, ledger, max_iterations, mode, q_idx, attempt, plan,
                   loop_i, last_cmd, completed, result, timed_out, approval, calls>>

\* Lines 463-475: iteration 0.
Scaffold ==
    /\ pc = "build_scaffold"
    /\ state.current_iteration = 0
    /\ check_budget(ScaffoldEstimate)
    /\ LET res == create_scaffold
           saved == [state EXCEPT !.iterations = Append(@, res),
                                  !.last_iteration_path = res.path,
                                  !.current_iteration = 0]
       IN /\ state_file' = save_state(saved)
          /\ state' = [saved EXCEPT !.total_cost = @ + ScaffoldCost]
    /\ ledger' = log_cost("scaffold", ScaffoldCost)
    /\ loop_i' = 1
    /\ pc' = "build_loop"
    /\ UNCHANGED <<iter_cost, daily_limit, max_iterations, mode, exc, q_idx, attempt, plan,
                   last_cmd, completed, result, sent, timed_out, approval, calls>>

\* Line 464 false: the scaffold is taken as done.
ScaffoldSkip ==
    /\ pc = "build_scaffold"
    /\ state.current_iteration # 0
    /\ loop_i' = 1
    /\ pc' = "build_loop"
    /\ UNCHANGED <<iter_cost, state, state_file, daily_limit, ledger, max_iterations, mode, exc,
                   q_idx, attempt, plan, last_cmd, completed, result, sent,
                   timed_out, approval, calls>>

\* Lines 479-481.
IterationSkip ==
    /\ pc = "build_loop"
    /\ loop_i <= LoopLen
    /\ state.current_iteration >= loop_i
    /\ loop_i' = loop_i + 1
    /\ UNCHANGED <<iter_cost, state, state_file, daily_limit, ledger, max_iterations, mode, pc,
                   exc, q_idx, attempt, plan, last_cmd, completed, result, sent,
                   timed_out, approval, calls>>

IterationBudgetFail ==
    /\ pc = "build_loop"
    /\ loop_i <= LoopLen
    /\ state.current_iteration < loop_i
    /\ ~check_budget(IterEstimate)
    /\ BudgetFail
    /\ UNCHANGED <<iter_cost, daily_limit, ledger, max_iterations, mode, q_idx, attempt, plan,
                   loop_i, last_cmd, completed, result, timed_out, approval, calls>>

\* Lines 487-506: build iteration i, record it, then block at the checkpoint.
Iteration ==
    /\ pc = "build_loop"
    /\ loop_i <= LoopLen
    /\ state.current_iteration < loop_i
    /\ check_budget(IterEstimate)
    /\ LET res == build_iteration(loop_i, iter_cost)
           saved == [state EXCEPT !.iterations = Append(@, res),
                                  !.last_iteration_path = res.path,
                                  !.current_iteration = loop_i]
       IN /\ state_file' = save_state(saved)
          /\ state' = [saved EXCEPT !.total_cost = @ + res.cost]
          /\ ledger' = log_cost("build_iter", res.cost)
    /\ sent' = Bump("checkpoint")
    /\ pc' = "wait_checkpoint"
    /\ UNCHANGED <<iter_cost, daily_limit, max_iterations, mode, exc, q_idx, attempt, plan,
                   loop_i, last_cmd, completed, result, timed_out, approval, calls>>

\* Lines 521-530: the ROLLBACK branch, for a numeric parameter.
Rollback(s, target) ==
    IF target < Len(s.iterations)
    THEN [s EXCEPT !.current_iteration = target,
                   !.last_iteration_path = s.iterations[target + 1].path]
    ELSE s

\* Line 509 with the test lost: no command stops the loop.
is_stop_never(parsed) == FALSE

\* Line 509.
is_stop(parsed) == parsed.action = "STOP"

\* Lines 507-532 for the command string send_iteration_result returned.
CheckpointCommand(command) ==
    LET parsed == parse_command(command) IN
    /\ last_cmd' = parsed
    /\ IF is_stop(parsed) THEN
          /\ completed' = FALSE
          /\ result' = NormalReturn(state.phase)
          /\ pc' = "returned"
          /\ UNCHANGED <<state, state_file, exc, loop_i, sent>>
       ELSE IF parsed.action = "FIX" THEN
          /\ loop_i' = loop_i + 1
          /\ pc' = "build_loop"
          /\ UNCHANGED <<state, state_file, exc, sent, completed, result>>
       ELSE IF parsed.action = "ROLLBACK" /\ parsed.parameter = "" THEN
          \* int('') raises ValueError
          /\ pc' = "exc"
          /\ exc' = "ValueError"
          /\ UNCHANGED <<state, state_file, loop_i, sent, completed, result>>
       ELSE IF parsed.action = "ROLLBACK" THEN
          /\ state' = Rollback(state, IntOf(parsed.parameter))
          /\ IF IntOf(parsed.parameter) < Len(state.iterations)
             THEN state_file' = save_state(state')
             ELSE UNCHANGED state_file
          /\ loop_i' = loop_i + 1
          /\ pc' = "build_loop"
          /\ UNCHANGED <<exc, sent, completed, result>>
       ELSE
          /\ loop_i' = loop_i + 1
          /\ pc' = "build_loop"
          /\ UNCHANGED <<state, state_file, exc, sent, completed, result>>
    /\ UNCHANGED <<iter_cost, daily_limit, ledger, max_iterations, mode, q_idx, attempt, plan,
                   approval, calls>>

CheckpointReply ==
    /\ pc = "wait_checkpoint"
    /\ \E raw \in CheckpointReplies : CheckpointCommand(send_iteration_result(raw))
    /\ UNCHANGED timed_out

\* send_iteration_result, lines 416-418: TimeoutError becomes "STOP".
CheckpointTimeout ==
    /\ pc = "wait_checkpoint"
    /\ CheckpointCommand(ActionText("STOP"))
    /\ timed_out' = "checkpoint"

\* request_user_input raised RuntimeError: _checkpoint_iteration, lines 334-336.
CheckpointSendError ==
    /\ pc = "wait_checkpoint"
    /\ state' = pause_build(state, "Checkpoint timeout")
    /\ state_file' = save_state(state')
    /\ sent' = Bump("alert")
    /\ pc' = "exc"
    /\ exc' = "SendError"
    /\ UNCHANGED <<iter_cost, daily_limit, ledger, max_iterations, mode, q_idx, attempt, plan,
                   loop_i, last_cmd, completed, result, timed_out, approval, calls>>

\* The loop is exhausted (line 534), _run_done_phase runs, the call returns.
BuildFinish ==
    /\ pc = "build_loop"
    /\ loop_i > LoopLen
    /\ completed' = TRUE
    /\ state' = [state EXCEPT !.phase = "DONE"]
    /\ state_file' = save_state(state')
    /\ sent' = Bump("complete")
    /\ result' = NormalReturn("DONE")
    /\ pc' = "returned"
    /\ UNCHANGED <<iter_cost, daily_limit, ledger, max_iterations, mode, exc, q_idx, attempt,
                   plan, loop_i, last_cmd, timed_out, approval, calls>>

(***************************************************************************)
(* Exceptions leaving the phase methods.                                   *)
(***************************************************************************)
\* run() without its BudgetExceeded handler: the generic handler takes it.
RunExceptBudget_generic ==
    /\ pc = "exc"
    /\ mode = "run"
    /\ exc = "BudgetExceeded"
    /\ state' = [state EXCEPT !.phase = "FAILED"]
    /\ state_file' = save_state(state')
    /\ result' = Returned(FALSE, "error", exc, "")
    /\ pc' = "returned"
    /\ UNCHANGED <<iter_cost, daily_limit, ledger, max_iterations, mode, exc, q_idx,
                   attempt, plan, loop_i, last_cmd, completed, sent, timed_out,
                   approval, calls>>

\* run(), lines 601-609.
RunExceptBudget ==
    /\ pc = "exc"
    /\ mode = "run"
    /\ exc = "BudgetExceeded"
    /\ state' = pause_build(state, "Budget limit")
    /\ state_file' = save_state(state')
    /\ sent' = Bump("alert")
    /\ result' = Returned(FALSE, "budget_exceeded", "", "")
    /\ pc' = "returned"
    /\ UNCHANGED <<iter_cost, daily_limit, ledger, max_iterations, mode, exc, q_idx, attempt,
                   plan, loop_i, last_cmd, completed, timed_out, approval, calls>>

\* run() without its generic handler: the exception reaches the caller.
RunExceptOther_reraise ==
    /\ pc = "exc"
    /\ mode = "run"
    /\ exc # "BudgetExceeded"
    /\ result' = [kind |-> "raise", success |-> FALSE, reason |-> "", error |-> exc,
                  phase |-> "", keys |-> {}]
    /\ pc' = "raised"
    /\ UNCHANGED <<iter_cost, state, state_file, daily_limit, ledger, max_iterations,
                   mode, exc, q_idx, attempt, plan, loop_i, last_cmd, completed, sent,
                   timed_out, approval, calls>>

\* run(), lines 611-620.
RunExceptOther ==
    /\ pc = "exc"
    /\ mode = "run"
    /\ exc # "BudgetExceeded"
    /\ state' = [state EXCEPT !.phase = "FAILED"]
    /\ state_file' = save_state(state')
    /\ result' = Returned(FALSE, "error", exc, "")
    /\ pc' = "returned"
    /\ UNCHANGED <<iter_cost, daily_limit, ledger, max_iterations, mode, exc, q_idx, attempt,
                   plan, loop_i, last_cmd, completed, sent, timed_out, approval,
                   calls>>

\* resume() has no handler: the exception reaches its caller.
ResumeRaise ==
    /\ pc = "exc"
    /\ mode = "resume"
    /\ result' = [kind |-> "raise", success |-> FALSE, reason |-> "", error |-> exc,
                  phase |-> "", keys |-> {}]
    /\ pc' = "raised"
    /\ UNCHANGED <<iter_cost, state, state_file, daily_limit, ledger, max_iterations, mode, exc,
                   q_idx, attempt, plan, loop_i, last_cmd, completed, sent,
                   timed_out, approval, calls>>

(***************************************************************************)
(* resume() and the constructor.                                           *)
(***************************************************************************)
\* BUILD_STATE.json in the project's build directory of date d.
FileIn(d) == IF d = dir_date THEN state_file ELSE shelved[d]

\* Lines 191-194 of the constructor running on wall_date: the directory is
\* derived from the date, and self.state_file lies in it.
DeriveDir ==
    /\ dir_date' = wall_date
    /\ shelved' = IF wall_date = dir_date THEN shelved
                  ELSE [shelved EXCEPT ![dir_date] = state_file, ![wall_date] = << >>]

\* Lines 199-201 and token_tracker.py 34-49: the TokenGuardian made by the
\* constructor starts without history when the file is of another date.
ReloadLedger == ledger' = IF wall_date = dir_date THEN ledger ELSE << >>

\* resume(build_dir), lines 633-688; the phase methods it calls run as the
\* actions above.  Line 648 sets build_dir; state_file stays as constructed.
Resume ==
    /\ pc \in {"idle", "returned", "raised", "killed"}
    /\ calls < MaxCalls
    /\ \E dir \in 1..MaxDates :
        /\ FileIn(dir) # << >>
        /\ build_dir' = dir
        /\ LET s == from_dict(FileIn(dir)[1])
               snt == NoSent
           IN CASE s.phase = "INTERVIEW" ->
                     /\ StartInterview(s, snt)
                     /\ result' = NoResult
                     /\ iter_cost' = 0
                [] s.phase = "PLANNING" ->
                     /\ StartPlanning(s)
                     /\ sent' = snt
                     /\ q_idx' = 0
                     /\ result' = NoResult
                     /\ iter_cost' = 0
                [] s.phase = "BUILD" ->
                     /\ StartBuild(s)
                     /\ sent' = snt
                     /\ q_idx' = 0
                     /\ result' = NoResult
                [] s.phase = "PAUSED" ->
                     /\ state' = s
                     /\ sent' = snt
                     /\ result' = Returned(FALSE, "paused", "", "")
                     /\ pc' = "returned"
                     /\ q_idx' = 0
                     /\ iter_cost' = 0
                     /\ state_file' = FileIn(wall_date)
                [] OTHER ->
                     /\ state' = s
                     /\ sent' = snt
                     /\ result' = ResumeReturn(s.phase)
                     /\ pc' = "returned"
                     /\ q_idx' = 0
                     /\ iter_cost' = 0
                     /\ state_file' = FileIn(wall_date)
    /\ FreshCall
    /\ mode' = "resume"
    /\ max_iterations' = DefaultMaxIterations
    /\ DeriveDir
    /\ ReloadLedger
    /\ UNCHANGED daily_limit

\* RalphLiteOrchestrator(project_name, idea, max_iterations): a new object;
\* _init_or_load_state reads the snapshot of its directory when there is one.
Construct ==
    /\ pc \in {"returned", "raised", "killed"}
    /\ calls < MaxCalls
    /\ state' = IF FileIn(wall_date) = << >> THEN NewState
                ELSE from_dict(FileIn(wall_date)[1])
    /\ state_file' = FileIn(wall_date)
    /\ max_iterations' = MaxIterations
    /\ mode' = "none"
    /\ pc' = "idle"
    /\ iter_cost' = 0
    /\ build_dir' = wall_date
    /\ DeriveDir
    /\ ReloadLedger
    /\ UNCHANGED <<daily_limit, exc, q_idx, attempt, plan,
                   loop_i, last_cmd, completed, result, sent, timed_out, approval,
                   calls>>

\* The builder is at work on the scaffold or on an iteration: the budget
\* check before it has passed and its outcome is not recorded yet.
Building ==
    \/ pc = "build_scaffold" /\ state.current_iteration = 0
          /\ check_budget(ScaffoldEstimate)
    \/ pc = "build_loop" /\ loop_i <= LoopLen /\ state.current_iteration < loop_i
          /\ check_budget(IterEstimate)

\* The process ends while the call waits for the human or while the builder
\* works: the object is gone, the files stay as last written.
Interrupt ==
    /\ pc \in {"wait_answer", "wait_approval", "wait_checkpoint"} \/ Building
    /\ calls < MaxCalls
    /\ pc' = "killed"
    /\ result' = NoResult
    /\ UNCHANGED <<iter_cost, state, state_file, daily_limit, ledger, max_iterations,
                   mode, exc, q_idx, attempt, plan, loop_i, last_cmd, completed,
                   sent, timed_out, approval, calls>>

(***************************************************************************)
(* CommunicationBridge: request_user_input (telegram.py) against the       *)
(* channel's getUpdates endpoint.  An update's text is identified with the *)
(* update itself: every message carries a text of its own.                 *)
(***************************************************************************)
Recipient == "recipient"
Chats == {Recipient, "stranger"}

Max(a, b) == IF a > b THEN a ELSE b

\* _make_request, line 68.
max_retries == 3

\* request_user_input, line 256: seconds between two polls.
poll_interval == 5

\* getUpdates: the pending updates from `offset` on (0: no offset given).
GetUpdates(offset) ==
    { id \in 1..Len(inbox) : id > confirmed /\ id >= offset }

\* getUpdates with an offset confirms every update below it.
Confirm(offset) == Max(confirmed, offset - 1)

\* Lines 286-299 ignoring the chat check: any text message is taken.
accepts_any_chat(update) ==
    /\ update.message
    /\ update.text

\* Lines 286-299: a message, from the configured chat, carrying text.
accepts(update) ==
    /\ update.message
    /\ update.chat = Recipient
    /\ update.text

\* Lines 275-303: the updates of one poll result the loop reaches, in order.
Candidates(batch) == { id \in batch : id > baseline /\ accepts(inbox[id]) }

Lowest(S) == CHOOSE id \in S : \A other \in S : id <= other

Highest(S) == CHOOSE id \in S : \A other \in S : id >= other

BridgeInit ==
    /\ inbox = << >>
    /\ confirmed = 0
    /\ last_update_id = 0
    /\ baseline = 0
    /\ bpc = "idle"
    /\ reply = 0
    /\ polls = 0
    /\ prompt_mark = 0
    /\ requests = 0
    /\ consumed = {}
    /\ send_attempts = 0
    /\ poll_failures = 0
    /\ slept = 0

\* The human, or anybody else, writes to the bot.
HumanSend ==
    /\ Len(inbox) < MaxUpdates
    /\ \E chat \in Chats, message \in BOOLEAN, text \in BOOLEAN :
        /\ (text => message)
        /\ inbox' = Append(inbox, [chat |-> chat, message |-> message, text |-> text])
    /\ UNCHANGED <<confirmed, last_update_id, baseline, bpc, reply, polls,
                   prompt_mark, requests,
                   consumed,
                   send_attempts, poll_failures, slept>>

\* request_user_input is called (credentials configured).
Request ==
    /\ bpc \in {"idle", "returned", "timeout", "failed"}
    /\ requests < MaxRequests
    /\ requests' = requests + 1
    /\ bpc' = "baseline"
    /\ reply' = 0
    /\ polls' = 0
    /\ send_attempts' = 0
    /\ poll_failures' = 0
    /\ slept' = 0
    /\ UNCHANGED <<inbox, confirmed, last_update_id, baseline, prompt_mark,
                   consumed>>

\* _get_latest_update_id, lines 43-51, the request answered: the marker moves
\* to the highest pending update; then line 241.
BaselineFetched ==
    /\ bpc = "baseline"
    /\ LET batch == GetUpdates(0) IN
       last_update_id' = IF batch # {} THEN Highest(batch) ELSE last_update_id
    /\ baseline' = last_update_id'
    /\ bpc' = "send"
    /\ UNCHANGED <<inbox, confirmed, reply, polls, prompt_mark, requests,
                   consumed,
                   send_attempts, poll_failures, slept>>

\* _get_latest_update_id giving 0 when the request failed, as it does without
\* a token (line 38).
BaselineFetchFailed_zero ==
    /\ bpc = "baseline"
    /\ last_update_id' = 0
    /\ baseline' = 0
    /\ bpc' = "send"
    /\ UNCHANGED <<inbox, confirmed, reply, polls, prompt_mark, requests, consumed,
                   send_attempts, poll_failures, slept>>

\* _get_latest_update_id, lines 52-55, the request failed: the marker stays.
BaselineFetchFailed ==
    /\ bpc = "baseline"
    /\ baseline' = last_update_id
    /\ bpc' = "send"
    /\ UNCHANGED <<inbox, confirmed, last_update_id, reply, polls, prompt_mark,
                   requests,
                   consumed,
                   send_attempts, poll_failures, slept>>

\* _make_request, lines 69-83, called by send_message (line 117): an attempt
\* fails with a RequestException; before the last attempt the call sleeps
\* 2 ** attempt seconds, after it the exception is raised.
SendAttemptFailed ==
    /\ bpc = "send"
    /\ send_attempts < max_retries
    /\ send_attempts' = send_attempts + 1
    /\ slept' = IF send_attempts < max_retries - 1 THEN 2 ^ send_attempts ELSE slept
    /\ UNCHANGED <<inbox, confirmed, last_update_id, baseline, bpc, reply, polls,
                   prompt_mark, requests, consumed, poll_failures>>

\* Lines 245-253: an attempt of _make_request is answered, the prompt is
\* transmitted.
PromptSent ==
    /\ bpc = "send"
    /\ send_attempts < max_retries
    /\ prompt_mark' = Len(inbox)
    /\ bpc' = "polling"
    /\ send_attempts' = 0
    /\ slept' = 0
    /\ UNCHANGED <<inbox, confirmed, last_update_id, baseline, reply, polls,
                   requests, consumed, poll_failures>>

\* Lines 245-246: send_message returned False (the answer was not ok, or
\* _make_request raised after its last attempt, lines 122-124), RuntimeError
\* is raised and the call is over.
PromptFailed ==
    /\ bpc = "send"
    /\ bpc' = "failed"
    /\ send_attempts' = 0
    /\ slept' = 0
    /\ UNCHANGED <<inbox, confirmed, last_update_id, baseline, reply, polls,
                   prompt_mark, requests, consumed, poll_failures>>

\* Lines 258-309: one poll that got an answer from the channel; with a reply
\* in it the call returns (line 303) and its loop is over.
Poll ==
    /\ bpc = "polling"
    /\ polls < MaxPolls
    /\ LET offset == IF last_update_id > 0 THEN last_update_id + 1 ELSE 0
           batch == GetUpdates(offset)
           fresh == { id \in batch : id > baseline }
           hits == Candidates(batch)
       IN /\ confirmed' = Confirm(offset)
          /\ IF hits # {}
             THEN /\ reply' = Lowest(hits)
                  /\ last_update_id' = Max(last_update_id, Lowest(hits))
                  /\ bpc' = "returned"
                  /\ consumed' = consumed \cup {Lowest(hits)}
                  /\ polls' = 0
                  /\ slept' = 0
             ELSE /\ last_update_id' =
                        IF fresh # {} THEN Max(last_update_id, Highest(fresh))
                        ELSE last_update_id
                  /\ polls' = polls + 1
                  /\ slept' = poll_interval
                  /\ UNCHANGED <<reply, bpc, consumed>>
    /\ poll_failures' = 0
    /\ UNCHANGED <<inbox, baseline, prompt_mark, requests, send_attempts>>

\* Lines 268-271 and 305-306: the poll failed; the loop sleeps and goes on.
PollFailed ==
    /\ bpc = "polling"
    /\ polls < MaxPolls
    /\ polls' = polls + 1
    /\ poll_failures' = poll_failures + 1
    /\ slept' = poll_interval
    /\ UNCHANGED <<inbox, confirmed, last_update_id, baseline, bpc, reply,
                   prompt_mark, requests, consumed, send_attempts>>

\* The loop of line 258 with a deadline that never passes.
ReplyTimeout_never ==
    /\ bpc = "polling"
    /\ polls > MaxPolls
    /\ bpc' = "timeout"
    /\ polls' = 0
    /\ poll_failures' = 0
    /\ slept' = 0
    /\ UNCHANGED <<inbox, confirmed, last_update_id, baseline, reply, prompt_mark,
                   requests, consumed, send_attempts>>

\* Lines 258 and 312: the deadline has passed, TimeoutError is raised and the
\* call is over.
ReplyTimeout ==
    /\ bpc = "polling"
    /\ polls >= 1
    /\ bpc' = "timeout"
    /\ polls' = 0
    /\ poll_failures' = 0
    /\ slept' = 0
    /\ UNCHANGED <<inbox, confirmed, last_update_id, baseline, reply, prompt_mark,
                   requests, consumed, send_attempts>>

(***************************************************************************)
(* TokenGuardian objects over their shared file (token_tracker.py).  The   *)
(* history dict is the set of its items; the key of an item is the pair of *)
(* the call's timestamp and its operation name.                            *)
(***************************************************************************)
Guardians == {"A", "B"}
LogOperations == {"interview_question"}
LogAmounts == {5}
Estimates == {0, 5}
GuardianLimits == {10, 65}

RECURSIVE SumItems(_)
SumItems(S) ==
    IF S = {} THEN 0
    ELSE LET e == CHOOSE x \in S : TRUE IN e.cost + SumItems(S \ {e})

NoCosts(today) == [current_date |-> today, history |-> {}]

\* _load_costs, lines 37-49.
load_costs(today) ==
    IF ~costs_file.exists THEN NoCosts(today)
    ELSE IF costs_file.current_date # today THEN NoCosts(today)
    ELSE [current_date |-> costs_file.current_date, history |-> costs_file.history]

\* get_daily_spend of guardian g, lines 56-61.
guardian_daily_spend(g) == SumItems(guardians[g].daily_costs.history)

\* check_budget accepting an operation that exactly reaches the limit.
guardian_check_budget_inclusive(g, estimated_cost) ==
    (guardian_daily_spend(g) + estimated_cost) <= daily_limit

\* check_budget of guardian g, lines 63-74.
guardian_check_budget(g, estimated_cost) ==
    (guardian_daily_spend(g) + estimated_cost) < daily_limit

\* log_cost, lines 89-99: history[op_id] = entry.
put_cost(history, op_id, cost) ==
    { e \in history : e.key # op_id } \cup { [key |-> op_id, cost |-> cost] }

NoCheck == [g |-> "none", x |-> 0, result |-> FALSE]

\* No log_cost call yet: count, amount per date, callers, the keys made at
\* the present clock reading, and whether two calls made the same key.
NoneRecorded ==
    [n |-> 0, total |-> [d \in 1..MaxDates |-> 0], by |-> {}, at_now |-> {},
     same_key |-> FALSE]

Record(g, d, op_id, cost) ==
    [n |-> recorded.n + 1,
     total |-> [recorded.total EXCEPT ![d] = @ + cost],
     by |-> recorded.by \cup {g},
     at_now |-> recorded.at_now \cup {op_id},
     same_key |-> recorded.same_key \/ op_id \in recorded.at_now]

GuardianInit ==
    /\ wall_date = 1
    /\ now = 0
    /\ costs_file = [exists |-> FALSE, current_date |-> 0, history |-> {}]
    /\ guardians = [g \in Guardians |-> [made |-> FALSE, today |-> 0,
                                         daily_costs |-> NoCosts(0)]]
    /\ recorded = NoneRecorded
    /\ checked = NoCheck

\* TokenGuardian.__init__, lines 28-35 (an orchestrator is constructed).
NewGuardian ==
    \E g \in Guardians :
        /\ ~guardians[g].made
        /\ guardians' = [guardians EXCEPT ![g] =
                            [made |-> TRUE, today |-> wall_date,
                             daily_costs |-> load_costs(wall_date)]]
        /\ UNCHANGED <<wall_date, now, costs_file, recorded, checked>>

\* log_cost, lines 76-101: the entry goes into the object's dict, and the
\* object's dict replaces the file.
GuardianLogCost ==
    \E g \in Guardians, operation \in LogOperations, cost \in LogAmounts :
        /\ guardians[g].made
        /\ recorded.n < MaxLogs
        /\ LET timestamp == <<wall_date, now>>
               op_id == <<timestamp, operation>>
               costs == [guardians[g].daily_costs EXCEPT
                            !.history = put_cost(@, op_id, cost)]
           IN /\ guardians' = [guardians EXCEPT ![g].daily_costs = costs]
              /\ costs_file' = [exists |-> TRUE, current_date |-> costs.current_date,
                                history |-> costs.history]
              /\ recorded' = Record(g, wall_date, op_id, cost)
        /\ UNCHANGED <<wall_date, now, checked>>

\* check_budget, lines 63-74.
GuardianCheckBudget ==
    \E g \in Guardians, estimated_cost \in Estimates :
        /\ guardians[g].made
        /\ checked' = [g |-> g, x |-> estimated_cost,
                       result |-> guardian_check_budget(g, estimated_cost)]
        /\ UNCHANGED <<wall_date, now, costs_file, guardians, recorded>>

\* The clock moves on within the date.
ClockTick ==
    /\ now < MaxTicks
    /\ now' = now + 1
    /\ recorded' = [recorded EXCEPT !.at_now = {}]
    /\ UNCHANGED <<wall_date, costs_file, guardians, checked>>

\* Midnight passes.
DateChange ==
    /\ wall_date < MaxDates
    /\ wall_date' = wall_date + 1
    /\ now' = 0
    /\ recorded' = [recorded EXCEPT !.at_now = {}]
    /\ UNCHANGED <<costs_file, guardians, checked>>

(***************************************************************************)
(* The orchestrator's specification.                                       *)
(***************************************************************************)
vars == <<ovars, bvars, gvars, fvars, avars>>

Init == OrchInit /\ BridgeInit /\ GuardianInit /\ NoText

Next ==
    \/ Run /\ UNCHANGED <<bvars, gvars, fvars, avars>>
    \/ Resume /\ UNCHANGED <<bvars, gvars, avars>>
    \/ Construct /\ UNCHANGED <<bvars, gvars, avars>>
    \/ InterviewBudgetFail /\ UNCHANGED <<bvars, gvars, fvars, avars>>
    \/ InterviewAsk /\ UNCHANGED <<bvars, gvars, fvars, avars>>
    \/ InterviewAnswer /\ UNCHANGED <<bvars, gvars, fvars, avars>>
    \/ InterviewFail /\ UNCHANGED <<bvars, gvars, fvars, avars>>
    \/ InterviewDone /\ UNCHANGED <<bvars, gvars, fvars, avars>>
    \/ PlanningExhausted /\ UNCHANGED <<bvars, gvars, fvars, avars>>
    \/ PlanningBudgetFail /\ UNCHANGED <<bvars, gvars, fvars, avars>>
    \/ PlanningAsk /\ UNCHANGED <<bvars, gvars, fvars, avars>>
    \/ ApprovalReply /\ UNCHANGED <<bvars, gvars, fvars, avars>>
    \/ ApprovalTimeout /\ UNCHANGED <<bvars, gvars, fvars, avars>>
    \/ ApprovalSendError /\ UNCHANGED <<bvars, gvars, fvars, avars>>
    \/ ScaffoldBudgetFail /\ UNCHANGED <<bvars, gvars, fvars, avars>>
    \/ Scaffold /\ UNCHANGED <<bvars, gvars, fvars, avars>>
    \/ ScaffoldSkip /\ UNCHANGED <<bvars, gvars, fvars, avars>>
    \/ IterationSkip /\ UNCHANGED <<bvars, gvars, fvars, avars>>
    \/ IterationBudgetFail /\ UNCHANGED <<bvars, gvars, fvars, avars>>
    \/ Iteration /\ UNCHANGED <<bvars, gvars, fvars, avars>>
    \/ CheckpointReply /\ UNCHANGED <<bvars, gvars, fvars, avars>>
    \/ CheckpointTimeout /\ UNCHANGED <<bvars, gvars, fvars, avars>>
    \/ CheckpointSendError /\ UNCHANGED <<bvars, gvars, fvars, avars>>
    \/ BuildFinish /\ UNCHANGED <<bvars, gvars, fvars, avars>>
    \/ RunExceptBudget /\ UNCHANGED <<bvars, gvars, fvars, avars>>
    \/ RunExceptOther /\ UNCHANGED <<bvars, gvars, fvars, avars>>
    \/ ResumeRaise /\ UNCHANGED <<bvars, gvars, fvars, avars>>

Spec == Init /\ [][Next]_vars

(***************************************************************************)
(* The orchestrator across process ends and dates: the calls of Next, the  *)
(* process ending under a call, and the date changing between calls.       *)
(***************************************************************************)
\* Midnight passes while no call is executing.
NewDay ==
    /\ pc \in {"idle", "returned", "raised", "killed"}
    /\ calls < MaxCalls
    /\ DateChange

RecoverySpecNext ==
    \/ Next
    \/ Interrupt /\ UNCHANGED <<bvars, gvars, fvars, avars>>
    \/ NewDay /\ UNCHANGED <<ovars, bvars, fvars, avars>>

RecoverySpec == Init /\ [][RecoverySpecNext]_vars

(***************************************************************************)
(* The bridge's specification: one process calling request_user_input     *)
(* while the channel receives messages; the orchestrator stays as built.   *)
(***************************************************************************)
BridgeSpecInit ==
    /\ BridgeInit
    /\ OrchInit
    /\ GuardianInit
    /\ NoText
    /\ daily_limit = 500

BridgeSpecNext ==
    \/ HumanSend /\ UNCHANGED <<ovars, gvars, fvars, avars>>
    \/ Request /\ UNCHANGED <<ovars, gvars, fvars, avars>>
    \/ BaselineFetched /\ UNCHANGED <<ovars, gvars, fvars, avars>>
    \/ BaselineFetchFailed /\ UNCHANGED <<ovars, gvars, fvars, avars>>
    \/ SendAttemptFailed /\ UNCHANGED <<ovars, gvars, fvars, avars>>
    \/ PromptSent /\ UNCHANGED <<ovars, gvars, fvars, avars>>
    \/ PromptFailed /\ UNCHANGED <<ovars, gvars, fvars, avars>>
    \/ Poll /\ UNCHANGED <<ovars, gvars, fvars, avars>>
    \/ PollFailed /\ UNCHANGED <<ovars, gvars, fvars, avars>>
    \/ ReplyTimeout /\ UNCHANGED <<ovars, gvars, fvars, avars>>

BridgeSpec == BridgeSpecInit /\ [][BridgeSpecNext]_vars

\* A step of the call in progress: request_user_input runs on a thread that
\* keeps executing, and time.time() advances while it polls and sleeps.
CallStep ==
    /\ \/ BaselineFetched
       \/ BaselineFetchFailed
       \/ SendAttemptFailed
       \/ PromptSent
       \/ PromptFailed
       \/ Poll
       \/ PollFailed
       \/ ReplyTimeout
    /\ UNCHANGED <<ovars, gvars, fvars, avars>>

BridgeLiveSpec == BridgeSpecInit /\ [][BridgeSpecNext]_vars /\ WF_vars(CallStep)

(***************************************************************************)
(* The ledger's specification: two guardians, as two orchestrators on one  *)
(* machine construct them, over token_costs.json.                          *)
(***************************************************************************)
GuardianSpecInit ==
    /\ GuardianInit
    /\ BridgeInit
    /\ OrchInit
    /\ NoText
    /\ daily_limit \in GuardianLimits

GuardianSpecNext ==
    \/ NewGuardian /\ UNCHANGED <<ovars, bvars, fvars, avars>>
    \/ GuardianLogCost /\ UNCHANGED <<ovars, bvars, fvars, avars>>
    \/ GuardianCheckBudget /\ UNCHANGED <<ovars, bvars, fvars, avars>>
    \/ ClockTick /\ UNCHANGED <<ovars, bvars, fvars, avars>>
    \/ DateChange /\ UNCHANGED <<ovars, bvars, fvars, avars>>

GuardianSpec == GuardianSpecInit /\ [][GuardianSpecNext]_vars

(***************************************************************************)
(* parse_command applied to the texts the human may type, in any case.     *)
(***************************************************************************)
ParseSpecInit ==
    /\ OrchInit
    /\ BridgeInit
    /\ GuardianInit
    /\ daily_limit = 500
    /\ response \in Texts
    /\ original = response
    /\ recased = 0
    /\ parse_result = NoParse
    /\ given = << >>
    /\ restored = << >>

ParseSpecNext ==
    \/ Recase /\ UNCHANGED <<ovars, bvars, gvars, fvars>>
    \/ ParseText /\ UNCHANGED <<ovars, bvars, gvars, fvars>>

ParseSpec == ParseSpecInit /\ [][ParseSpecNext]_vars

(***************************************************************************)
(* The round trip of a BuildState through its dictionary.                  *)
(***************************************************************************)
RoundTripSpecInit ==
    /\ OrchInit
    /\ BridgeInit
    /\ GuardianInit
    /\ daily_limit = 500
    /\ response = << >>
    /\ original = << >>
    /\ recased = 0
    /\ parse_result = NoParse
    /\ given \in { <<s>> : s \in BuildStates }
    /\ restored = << >>

RoundTripSpecNext ==
    \/ RoundTrip /\ UNCHANGED <<ovars, bvars, gvars, fvars>>

RoundTripSpec == RoundTripSpecInit /\ [][RoundTripSpecNext]_vars

(***************************************************************************)
(* Properties.                                                             *)
(***************************************************************************)
Rank(ph) ==
    CASE ph = "IDLE" -> 0 [] ph = "INTERVIEW" -> 1 [] ph = "PLANNING" -> 2
      [] ph = "BUILD" -> 3 [] ph = "DONE" -> 4 [] OTHER -> 5

\* Iteration number of the outcome recorded last.
LastBuilt == state.iterations[Len(state.iterations)].iteration_num

\* C1: every change of BuildState.phase advances along IDLE -> INTERVIEW ->
\* PLANNING -> BUILD -> DONE, or goes to PAUSED from an active phase, or goes
\* to FAILED; and the phase is never changed once it is DONE or FAILED.
C1_PhaseMonotonic ==
    [][ state'.phase # state.phase =>
          /\ state.phase \notin {"DONE", "FAILED"}
          /\ \/ /\ state.phase \in {"IDLE", "INTERVIEW", "PLANNING", "BUILD"}
                /\ state'.phase \in {"INTERVIEW", "PLANNING", "BUILD", "DONE"}
                /\ Rank(state'.phase) > Rank(state.phase)
             \/ /\ state'.phase = "PAUSED"
                /\ state.phase \in {"INTERVIEW", "PLANNING", "BUILD"}
             \/ state'.phase = "FAILED" ]_vars

\* The estimate that is budget-checked before an operation of the ledger.
EstimateFor(operation) ==
    CASE operation = "interview_question" -> InterviewEstimate
      [] operation = "plan_approved" -> PlanEstimate
      [] operation = "scaffold" -> ScaffoldEstimate
      [] OTHER -> IterEstimate

IterationsWithinEstimate ==
    \A k \in 1..Len(ledger) :
        ledger[k].operation = "build_iter" => ledger[k].cost <= IterEstimate

\* C2: starting from an empty ledger, the daily spend stays strictly below
\* the daily limit as long as every iteration reported a cost within the
\* 0.50 estimate; and every cost is logged in a state in which the budget
\* check for that operation's estimate passes.
C2_SpendBelowLimit ==
    /\ [](IterationsWithinEstimate => get_daily_spend < daily_limit)
    /\ [][ ledger' # ledger =>
             /\ Len(ledger') = Len(ledger) + 1
             /\ SubSeq(ledger', 1, Len(ledger)) = ledger
             /\ check_budget(EstimateFor(ledger'[Len(ledger')].operation)) ]_vars

C2_Witness ==
    /\ IterationsWithinEstimate
    /\ Len(ledger) > 0
    /\ ledger[Len(ledger)].operation = "build_iter"
    /\ ledger[Len(ledger)].cost = IterEstimate
    /\ get_daily_spend + IterEstimate >= daily_limit

\* A budget check is about to fail at the position the call is in.
BudgetCheckFails ==
    \/ pc = "interview" /\ q_idx <= NumQuestions /\ ~check_budget(InterviewEstimate)
    \/ pc = "planning" /\ attempt < MaxRevisions /\ ~check_budget(PlanEstimate)
    \/ pc = "build_scaffold" /\ state.current_iteration = 0
          /\ ~check_budget(ScaffoldEstimate)
    \/ pc = "build_loop" /\ loop_i <= LoopLen /\ state.current_iteration < loop_i
          /\ ~check_budget(IterEstimate)

\* C3: when a budget check fails in run(), nothing more is sent to the human
\* as a question, plan or checkpoint and nothing more is built; run()
\* returns success false with reason budget_exceeded, and the build is left
\* PAUSED with a pause reason.
C3_BudgetPauses ==
    /\ [][ (mode = "run" /\ BudgetCheckFails) =>
             /\ pc' = "exc" /\ exc' = "BudgetExceeded"
             /\ state'.phase = "PAUSED"
             /\ sent'.question = sent.question /\ sent'.approval = sent.approval
             /\ sent'.checkpoint = sent.checkpoint
             /\ state'.iterations = state.iterations ]_vars
    /\ [][ (mode = "run" /\ pc = "exc" /\ exc = "BudgetExceeded") =>
             /\ pc' = "returned"
             /\ result' = Returned(FALSE, "budget_exceeded", "", "")
             /\ state'.phase = "PAUSED"
             /\ state'.paused_at /\ state'.pause_reason # "None"
             /\ sent'.question = sent.question /\ sent'.approval = sent.approval
             /\ sent'.checkpoint = sent.checkpoint
             /\ state'.iterations = state.iterations ]_vars

C3_Witness ==
    /\ mode = "run" /\ pc = "returned"
    /\ result.reason = "budget_exceeded"
    /\ state.phase = "PAUSED"
    /\ state.current_iteration = 1

\* C4: when a wait for the human's reply times out in run(), run() returns
\* with the build PAUSED and a pause reason recorded.
C4_TimeoutPauses ==
    (mode = "run" /\ pc = "returned" /\ timed_out # "none") =>
        (state.phase = "PAUSED" /\ state.pause_reason # "None")

\* The updates a reply may be taken from: past the baseline, from the
\* configured chat, with text.
Qualifying == { id \in 1..Len(inbox) : id > baseline /\ accepts(inbox[id]) }

\* C5: the update returned as the reply was written after the prompt of this
\* request was transmitted.
C5_ReplyAfterPrompt ==
    bpc = "returned" => reply > prompt_mark

\* C6: the reply returned is the lowest-numbered update with an id above the
\* baseline that comes from the configured chat and carries text; nothing at
\* or below the baseline and nothing from another chat is returned.
C6_LowestQualifying ==
    bpc = "returned" =>
        /\ reply \in 1..Len(inbox)
        /\ reply > baseline
        /\ inbox[reply].chat = Recipient
        /\ inbox[reply].message /\ inbox[reply].text
        /\ reply = Lowest(Qualifying)

C6_Witness ==
    /\ bpc = "returned"
    /\ baseline > 0
    /\ \E id \in 1..Len(inbox) :
          /\ baseline < id /\ id < reply
          /\ inbox[id].chat # Recipient /\ inbox[id].text

\* C7: the planning loop fails for exceeded revisions only after it has asked
\* for a decision once more than max_revisions times.
C7_AsksAfterLastRevision ==
    (pc = "exc" /\ exc = "MaxRevisions") => sent.approval = MaxRevisions + 1

\* C8: after ROLLBACK t at the checkpoint of iteration i, t < i, the next
\* iteration built is t + 1.
C8_RollbackRebuilds ==
    ( /\ pc = "wait_checkpoint"
      /\ last_cmd.action = "ROLLBACK" /\ last_cmd.parameter # ""
      /\ Len(state.iterations) >= 2
      /\ IntOf(last_cmd.parameter)
            < state.iterations[Len(state.iterations) - 1].iteration_num )
    => LastBuilt = IntOf(last_cmd.parameter) + 1

\* C9: a STOP at the checkpoint of iteration k ends the build loop as
\* incomplete with current_iteration = k; nothing is built after it and the
\* phase does not become DONE in that call.
C9_StopAborts ==
    last_cmd.action = "STOP" =>
        /\ pc \in {"returned", "idle"}
        /\ completed = FALSE
        /\ pc = "returned" =>
              /\ result.kind = "return"
              /\ state.phase # "DONE"
              /\ state.current_iteration = LastBuilt

C9_Witness ==
    /\ mode = "run" /\ pc = "returned"
    /\ last_cmd.action = "STOP" /\ timed_out = "none"
    /\ state.current_iteration = 2
    /\ LoopLen > 2

\* C10: after a REJECT of the plan in run(), the call fails: no further
\* approval prompt, no scaffold and no iteration, the phase becomes neither
\* BUILD nor DONE, and run() ends with the build FAILED.
C10_RejectIsFatal ==
    /\ []( (mode = "run" /\ approval = "REJECT") =>
             /\ pc \in {"exc", "returned", "idle"}
             /\ pc = "exc" => exc = "PlanRejected"
             /\ state.phase \notin {"BUILD", "DONE"}
             /\ sent.checkpoint = 0
             /\ pc = "returned" =>
                   /\ state.phase = "FAILED"
                   /\ result = Returned(FALSE, "error", "PlanRejected", "") )
    /\ [][ (mode = "run" /\ approval = "REJECT" /\ approval' = "REJECT") =>
             /\ sent' = sent
             /\ ledger' = ledger
             /\ state'.iterations = state.iterations ]_vars

C10_Witness ==
    /\ mode = "run" /\ pc = "returned"
    /\ approval = "REJECT" /\ timed_out = "none"
    /\ state.phase = "FAILED"
    /\ state.plan_revisions = 2

\* The call is blocked for the human's reply.
Blocked == pc \in {"wait_answer", "wait_approval", "wait_checkpoint"}

\* C11: whenever the orchestrator blocks for a reply, and when run() has
\* returned, the snapshot file holds the in-memory BuildState, field by field
\* (updated_at aside).
C11_SnapshotCurrent ==
    (Blocked \/ (pc = "returned" /\ mode = "run")) => state_file = save_state(state)

\* BUILD_STATE.json in the build directory of date d after the step.
FileInNext(d) == IF d = dir_date' THEN state_file' ELSE shelved'[d]

\* C12: once resume(build_dir) has been called, a persist of the state goes
\* to the state file under build_dir: no step of the resumed call changes
\* the state file of any other build directory.
C12_PersistsUnderBuildDir ==
    [][ mode' = "resume" =>
          \A d \in 1..MaxDates : d # build_dir' => FileInNext(d) = FileIn(d) ]_vars

\* The outcome a step of the build loop has appended to state.iterations.
Built == state'.iterations[Len(state'.iterations)]

\* C13: in a resume() that started from a BUILD snapshot, up to its first
\* checkpoint, the scaffold is built only when no scaffold outcome is
\* recorded, and the iteration built is current_iteration + 1.
C13_ResumeContinues ==
    [][ ( /\ mode = "resume" /\ pc \in {"build_scaffold", "build_loop"}
          /\ sent.question = 0 /\ sent.approval = 0 /\ sent.checkpoint = 0
          /\ state'.iterations # state.iterations )
        => /\ Len(state'.iterations) = Len(state.iterations) + 1
           /\ Built.iteration_num = 0 =>
                 \A k \in 1..Len(state.iterations) :
                     state.iterations[k].iteration_num # 0
           /\ Built.iteration_num # 0 =>
                 Built.iteration_num = state.current_iteration + 1 ]_vars

\* C15: when run() ends with the build PAUSED or FAILED, an alert about it
\* went to the recipient during that call.
C15_Notified ==
    (mode = "run" /\ pc = "returned" /\ state.phase \in {"PAUSED", "FAILED"})
        => sent.alert > 0

C17_IterationBounded ==
    state.current_iteration <= MaxIterations

\* C18: total_cost of the build never decreases.
C18_CostMonotone ==
    [][ state'.total_cost >= state.total_cost ]_vars

\* Every log_cost call so far had a key of its own and was made today.
CallsApart ==
    /\ ~recorded.same_key
    /\ \A d \in 1..MaxDates : d # wall_date => recorded.total[d] = 0

\* C14: with two orchestrators at work, every cost entry either of them
\* recorded is in the persisted ledger, and no budget check of either passes
\* when what both recorded today plus the estimate reaches the daily limit.
C14_NoInterference ==
    /\ []( CallsApart =>
             /\ Cardinality(costs_file.history) = recorded.n
             /\ SumItems(costs_file.history) = recorded.total[wall_date] )
    /\ [][ (CallsApart /\ checked' # checked /\ checked'.result) =>
             recorded.total[wall_date] + checked'.x < daily_limit ]_vars

\* C19: the daily spend a guardian reports is the sum of the amounts recorded
\* through it on the current date, and so 0 after a change of date until the
\* next cost is recorded (stated for calls whose timestamps all differ).
C19_SpendIsTodaysSum ==
    \A g \in Guardians :
        (guardians[g].made /\ recorded.by \subseteq {g} /\ ~recorded.same_key)
            => guardian_daily_spend(g) = recorded.total[wall_date]

\* C20: check_budget(x) is true exactly when get_daily_spend() + x is
\* strictly below the daily limit, so false when it equals the limit, and
\* the call leaves the ledger as it was.
C20_StrictBudget ==
    [][ checked' # checked =>
          /\ checked'.result =
                (guardian_daily_spend(checked'.g) + checked'.x < daily_limit)
          /\ (guardian_daily_spend(checked'.g) + checked'.x = daily_limit)
                => ~checked'.result
          /\ UNCHANGED <<guardians, costs_file>> ]_vars

C20_Witness ==
    /\ checked.g \in Guardians
    /\ ~checked.result
    /\ checked.x > 0
    /\ guardian_daily_spend(checked.g) + checked.x = daily_limit

\* C23: parse_command yields, for every text, exactly one of the eight
\* actions, the same one whatever the case of its letters; "fix: missing
\* tests" yields FIX with "missing tests", "rollback 2" yields ROLLBACK with
\* "2", "approve" and "ok" yield APPROVE, and the empty text UNKNOWN.
C23_ParseTotal ==
    parse_result # NoParse =>
        /\ parse_result.action \in {"CONTINUE", "STOP", "APPROVE", "REJECT", "FIX",
                                     "ROLLBACK", "REVISE", "UNKNOWN"}
        /\ parse_result.action = parse_text(original).action
        /\ original = <<"f", "i", "x", ":", " ", "m", "i", "s", "s", "i", "n", "g", " ", "t", "e", "s", "t", "s">> =>
              /\ parse_result.action = "FIX"
              /\ lower(parse_result.parameter) = <<"m", "i", "s", "s", "i", "n", "g", " ", "t", "e", "s", "t", "s">>
        /\ original = <<"r", "o", "l", "l", "b", "a", "c", "k", " ", "2">> =>
              parse_result = TextCmd("ROLLBACK", <<"2">>, response)
        /\ original \in {<<"a", "p", "p", "r", "o", "v", "e">>, <<"o", "k">>} => parse_result.action = "APPROVE"
        /\ original = << >> => parse_result.action = "UNKNOWN"

C23_Witness ==
    /\ parse_result.action = "FIX"
    /\ recased = MaxRecase
    /\ response[1] = "F"
    /\ parse_result.parameter = <<"m", "i", "s", "s", "i", "n", "g", " ", "T", "e", "s", "t", "s">>

\* C24: from_dict(to_dict(s)) equals s in every field.
C24_RoundTrip ==
    restored # << >> => restored = given

C24_Witness ==
    /\ restored # << >>
    /\ given[1].phase = 6
    /\ given[1].paused_at # << >>
    /\ given[1].updated_at.microsecond # 0
    /\ Len(given[1].iterations) = 2
    /\ given[1].iterations[1].iteration_num # given[1].iterations[2].iteration_num

\* C25: a reply that parses to UNKNOWN never approves the plan at a plan
\* approval and never lets the build loop go on to the next iteration at a
\* checkpoint.
C25_UnknownConservative ==
    [][ /\ (pc = "wait_approval" /\ approval' = "UNKNOWN") =>
              /\ state'.phase # "BUILD"
              /\ state'.approved_plan = state.approved_plan
        /\ (pc = "wait_checkpoint" /\ pc' # pc /\ last_cmd'.action = "UNKNOWN") =>
              loop_i' = loop_i ]_vars

\* C26: run() and resume() return success = true only with the build's phase
\* DONE.
C26_SuccessMeansDone ==
    (pc = "returned" /\ result.kind = "return" /\ result.success) =>
        state.phase = "DONE"

\* C27: a ROLLBACK without a number at the checkpoint of iteration i sets
\* current_iteration to i - 1 and the build loop goes on; the build does not
\* become FAILED by it.
C27_BareRollback ==
    /\ []( (last_cmd.action = "ROLLBACK" /\ last_cmd.parameter = "") =>
              (pc # "exc" /\ state.phase # "FAILED") )
    /\ [][ ( /\ pc = "wait_checkpoint" /\ pc' # pc
             /\ last_cmd'.action = "ROLLBACK" /\ last_cmd'.parameter = "" )
           => /\ pc' = "build_loop"
              /\ state'.current_iteration = state.current_iteration - 1 ]_vars

\* C28: whenever the orchestrator waits for a reply or has returned from
\* run() or resume(), total_cost is the sum of the amounts the build has
\* passed to log_cost since it was created.
C28_CostIsLoggedSum ==
    (Blocked \/ pc = "returned") => state.total_cost = SumCosts(ledger)

\* C29: the BuildState never holds more Q/A pairs than questions are
\* generated for the idea.
C29_OnePairPerQuestion ==
    Len(state.qa_pairs) <= NumQuestions

\* C30: over the calls of request_user_input in one process the last-seen
\* marker never decreases, and an update returned as the reply to one prompt
\* is not returned as the reply to a later one.
C30_NoDoubleConsumption ==
    /\ [][ last_update_id' >= last_update_id ]_vars
    /\ [][ (bpc' = "returned" /\ bpc # "returned") => reply' \notin consumed ]_vars

C30_Witness ==
    /\ bpc = "returned"
    /\ requests = 2
    /\ Cardinality(consumed) = 2
    /\ reply > baseline
    /\ last_update_id >= reply

\* C22: a send request or a poll request is attempted at most max_retries
\* times in a row, each wait after the first is twice the wait before it, and
\* once max_retries attempts in a row have failed the call ends with an error
\* instead of trying the request again.
C22_BoundedBackoff ==
    /\ [](send_attempts <= max_retries /\ poll_failures <= max_retries)
    /\ [][ /\ send_attempts' = send_attempts + 1
              /\ send_attempts \in 1..(max_retries - 2)
           => slept' = 2 * slept ]_vars
    /\ [][ /\ poll_failures' = poll_failures + 1
              /\ poll_failures \in 1..(max_retries - 2)
           => slept' = 2 * slept ]_vars
    /\ [][ send_attempts = max_retries => bpc' \in {"send", "failed"} ]_vars
    /\ [][ poll_failures = max_retries => bpc' \in {"failed", "baseline"} ]_vars

\* The wait of a call: a failed poll leaves the call polling, the call polls
\* no more often than the deadline admits, and it times out only after time
\* has passed.
WaitIsTimeBased ==
    /\ [](polls <= MaxPolls)
    /\ [][ poll_failures' = poll_failures + 1 => bpc' = "polling" ]_vars
    /\ [][ bpc = "polling" /\ bpc' = "timeout" => polls >= 1 ]_vars

\* C21 as stated: every call of request_user_input ends, and it ends either
\* returning a reply or with TimeoutError; failed polls neither end the wait
\* nor prolong it.
C21_ReturnsOrTimesOut ==
    /\ [](bpc # "failed")
    /\ (bpc = "baseline") ~> (bpc \in {"returned", "timeout"})
    /\ WaitIsTimeBased

\* C21, amended: every call of request_user_input ends: it returns a reply,
\* raises TimeoutError, or raises RuntimeError before waiting because the
\* prompt could not be sent; failed polls neither end the wait nor prolong it.
C21_CallTerminates ==
    /\ (bpc = "baseline") ~> (bpc \in {"returned", "timeout", "failed"})
    /\ [][ bpc' = "failed" /\ bpc # "failed" => bpc = "send" ]_vars
    /\ WaitIsTimeBased

C21_Witness ==
    /\ bpc = "timeout"
    /\ requests = MaxRequests
    /\ consumed # {}
    /\ Len(inbox) > prompt_mark

====
